---- MODULE Spec2Model ----
(***************************************************************************)
(* Model of src/app.py: the "Alpha" portfolio laboratory.                  *)
(*                                                                         *)
(* One script run is: parse the symbols, download the closing prices,      *)
(* build the return table (pct_change + dropna), stop when it is empty,    *)
(* then three tabs: the Monte Carlo simulation, the beta analysis and the  *)
(* correlation matrix.                                                     *)
(*                                                                         *)
(* Numbers.  A float64 is modelled as an exact rational with the IEEE      *)
(* special values: [k |-> "fin", n |-> p, d |-> q] is p/q in lowest terms  *)
(* (q > 0), and k = "nan", "inf", "ninf" are NaN, +inf and -inf.  A value  *)
(* that went through np.sqrt is a "surd" [k, s, n, d], meaning             *)
(* s * sqrt(n/d) with s in {-1,0,1}.  Rounding is not modelled; division   *)
(* by zero, NaN propagation and NaN in comparisons are.                    *)
(***************************************************************************)
EXTENDS Integers, Sequences, FiniteSets, TLC

\* ------------------------------------------------------------------ bounds
MaxObs     == 3   \* calculate_beta: longest pair of series tried
MaxSamples == 2   \* simulation: num_portfolios
MaxDraw    == 1   \* np.random.random draws tried: 0/(MaxDraw+1) .. MaxDraw/(MaxDraw+1)
MaxPrice   == 2   \* return builder: prices tried are 1..MaxPrice (and missing)
MaxRows    == 3   \* return builder: most rows of the price table
RunRows    == 2   \* whole run: rows of the downloaded price table
RunSamples == 1   \* whole run: num_portfolios
MaxWords   == 2   \* whole run: most symbols typed

\* --------------------------------------------------------------- constants
TradingDays == 252   \* the annualisation factor of lines 74-75

\* ------------------------------------------------------------- arithmetic
Abs(x)  == IF x < 0 THEN -x ELSE x
Sign(x) == IF x > 0 THEN 1 ELSE IF x < 0 THEN -1 ELSE 0

RECURSIVE Gcd(_, _)
Gcd(a, b) == IF b = 0 THEN a ELSE Gcd(b, a % b)

NaN    == [k |-> "nan", n |-> 0, d |-> 1]
Inf(s) == [k |-> IF s > 0 THEN "inf" ELSE "ninf", n |-> 0, d |-> 1]

\* p/q with q > 0, in lowest terms.
Q(p, q) ==
    LET g == Gcd(Abs(p), q)
    IN  [k |-> "fin", n |-> p \div g, d |-> q \div g]

Int2Q(i) == Q(i, 1)
IsNaN(a) == a.k = "nan"
IsFin(a) == a.k = "fin"
\* Sign of a non-NaN value.
SignOf(a) == IF a.k = "inf" THEN 1 ELSE IF a.k = "ninf" THEN -1 ELSE Sign(a.n)

\* IEEE a + b.
QAdd(a, b) ==
    IF IsNaN(a) \/ IsNaN(b) THEN NaN
    ELSE IF IsFin(a) /\ IsFin(b) THEN Q(a.n * b.d + b.n * a.d, a.d * b.d)
    ELSE IF IsFin(a) THEN b
    ELSE IF IsFin(b) THEN a
    ELSE IF a.k = b.k THEN a ELSE NaN

\* IEEE a * b.
QMul(a, b) ==
    IF IsNaN(a) \/ IsNaN(b) THEN NaN
    ELSE IF IsFin(a) /\ IsFin(b) THEN
        LET g1 == Gcd(Abs(a.n), b.d)
            g2 == Gcd(Abs(b.n), a.d)
        IN  Q((a.n \div g1) * (b.n \div g2), (a.d \div g2) * (b.d \div g1))
    ELSE IF SignOf(a) * SignOf(b) = 0 THEN NaN
    ELSE Inf(SignOf(a) * SignOf(b))

QNeg(a) == QMul(Int2Q(-1), a)
QSub(a, b) == QAdd(a, QNeg(b))

\* IEEE a / b: x/0 is +inf or -inf for x # 0 and NaN for x = 0; nothing raises.
QDiv(a, b) ==
    IF IsNaN(a) \/ IsNaN(b) THEN NaN
    ELSE IF IsFin(a) /\ IsFin(b) THEN
        IF b.n = 0 THEN (IF a.n = 0 THEN NaN ELSE Inf(Sign(a.n)))
        ELSE QMul(a, Q(Sign(b.n) * b.d, Abs(b.n)))
    ELSE IF IsFin(a) THEN Int2Q(0)
    ELSE IF IsFin(b) THEN Inf(SignOf(a) * (IF b.n < 0 THEN -1 ELSE 1))
    ELSE NaN

RECURSIVE QSum(_)
QSum(s) == IF s = <<>> THEN Int2Q(0) ELSE QAdd(Head(s), QSum(Tail(s)))

\* Series.mean() / DataFrame.mean(): sum / count (NaN for an empty series).
Mean(s) == QDiv(QSum(s), Int2Q(Len(s)))

\* Series.cov(other) / DataFrame.cov(): sum((x-mx)(y-my)) / (n-1); with one
\* observation that is 0/0 = NaN, as pandas reports.
Cov(x, y) ==
    LET mx == Mean(x)
        my == Mean(y)
        prod == [t \in 1..Len(x) |-> QMul(QSub(x[t], mx), QSub(y[t], my))]
    IN  QDiv(QSum(prod), Int2Q(Len(x) - 1))

\* Series.var(): the sample variance, ddof = 1.
Var(x) == Cov(x, x)

\* ------------------------------------------------------------------ surds
\* s * sqrt(n/d): what np.sqrt returns, and what dividing by it gives.
SNaN    == [k |-> "nan", s |-> 0, n |-> 0, d |-> 1]
SZero   == [k |-> "fin", s |-> 0, n |-> 0, d |-> 1]
SInf(s) == [k |-> IF s > 0 THEN "inf" ELSE "ninf", s |-> 0, n |-> 0, d |-> 1]

\* np.sqrt: NaN for a negative argument.
Sqrt(q) ==
    IF IsNaN(q) \/ q.k = "ninf" THEN SNaN
    ELSE IF q.k = "inf" THEN SInf(1)
    ELSE IF q.n < 0 THEN SNaN
    ELSE [k |-> "fin", s |-> Sign(q.n), n |-> q.n, d |-> q.d]

\* The same float read as a surd: p/q = sign(p) * sqrt(p^2/q^2).
ToSurd(q) ==
    IF IsNaN(q) THEN SNaN
    ELSE IF q.k = "inf" THEN SInf(1)
    ELSE IF q.k = "ninf" THEN SInf(-1)
    ELSE [k |-> "fin", s |-> Sign(q.n), n |-> q.n * q.n, d |-> q.d * q.d]

SSign(a) == IF a.k = "inf" THEN 1 ELSE IF a.k = "ninf" THEN -1 ELSE a.s

\* IEEE a / b on surds: x/0 is +inf, -inf or (0/0) NaN.
SDiv(a, b) ==
    IF IsNaN(a) \/ IsNaN(b) THEN SNaN
    ELSE IF IsFin(a) /\ IsFin(b) THEN
        IF b.s = 0 THEN (IF a.s = 0 THEN SNaN ELSE SInf(a.s))
        ELSE LET r == QMul(Q(a.n, a.d), Q(b.d, b.n))
             IN  [k |-> "fin", s |-> a.s * b.s, n |-> r.n, d |-> r.d]
    ELSE IF IsFin(a) THEN SZero
    ELSE IF IsFin(b) THEN SInf(SSign(a) * (IF b.s < 0 THEN -1 ELSE 1))
    ELSE SNaN

\* a < b for two surds that are not NaN.
SLess(a, b) ==
    IF a.k = "inf" \/ b.k = "ninf" THEN FALSE
    ELSE IF a.k = "ninf" \/ b.k = "inf" THEN TRUE
    ELSE IF a.s # b.s THEN a.s < b.s
    ELSE IF a.s = 0 THEN FALSE
    ELSE IF a.s = 1 THEN a.n * b.d < b.n * a.d
    ELSE a.n * b.d > b.n * a.d

\* IEEE a >= b: false as soon as either side is NaN.
SGe(a, b) == ~IsNaN(a) /\ ~IsNaN(b) /\ ~SLess(a, b)

SetMin(S) == CHOOSE x \in S : \A y \in S : x <= y
SetMax(S) == CHOOSE x \in S : \A y \in S : x >= y

\* np.argmax of a row (0-based result): the first NaN if there is one, else
\* the first position of the largest value.
ArgMax(row) ==
    LET nans == {j \in 1..Len(row) : IsNaN(row[j])}
        tops == {j \in 1..Len(row) : \A m \in 1..Len(row) : ~SLess(row[j], row[m])}
    IN  IF nans # {} THEN SetMin(nans) - 1 ELSE SetMin(tops) - 1

\* ------------------------------------------------------------- data frames
\* [index: the timestamps kept, columns: the symbols in order, rows: one
\* sequence of cells per timestamp].  A missing cell is NaN.
EmptyDF == [index |-> <<>>, columns |-> <<>>, rows |-> <<>>]

NRows(df) == Len(df.index)
Range(s) == {s[x] : x \in DOMAIN s}
ColPos(df, name) == CHOOSE c \in 1..Len(df.columns) : df.columns[c] = name
\* df[name]: one column as a series.
Column(df, name) == [t \in 1..NRows(df) |-> df.rows[t][ColPos(df, name)]]
\* DataFrame.empty: no rows or no columns.
IsEmpty(df) == NRows(df) = 0 \/ Len(df.columns) = 0

\* DataFrame.ffill(): a missing cell takes the last earlier value of its column.
FFill(df) ==
    [df EXCEPT !.rows =
        [t \in 1..NRows(df) |->
            [c \in 1..Len(df.columns) |->
                LET have == {u \in 1..t : ~IsNaN(df.rows[u][c])}
                IN  IF have = {} THEN NaN ELSE df.rows[SetMax(have)][c]]]]

\* DataFrame.pct_change(): x[t] / x[t-1] - 1 per column, the first row NaN.
\* Up to pandas 2 the default fill_method is "pad": the frame is forward
\* filled first.  From pandas 3 on nothing is filled.  The script pins neither.
PctChange(df, fill) ==
    LET f == IF fill = "pad" THEN FFill(df) ELSE df
    IN  [f EXCEPT !.rows =
            [t \in 1..NRows(f) |->
                [c \in 1..Len(f.columns) |->
                    IF t = 1 THEN NaN
                    ELSE QSub(QDiv(f.rows[t][c], f.rows[t - 1][c]), Int2Q(1))]]]

\* DataFrame.dropna(): keep the rows without any NaN.
DropNa(df) ==
    LET keep == SelectSeq([t \in 1..NRows(df) |-> t],
                          LAMBDA t : \A c \in 1..Len(df.columns) : ~IsNaN(df.rows[t][c]))
    IN  [index   |-> [x \in 1..Len(keep) |-> df.index[keep[x]]],
         columns |-> df.columns,
         rows    |-> [x \in 1..Len(keep) |-> df.rows[keep[x]]]]

\* A selection that keeps every fetched column.
SelectNothing(df, names) == df

\* df[names]: the listed columns, in the listed order (repeats allowed).
SelectColumns(df, names) ==
    [index   |-> df.index,
     columns |-> names,
     rows    |-> [t \in 1..NRows(df) |->
                    [c \in 1..Len(names) |-> df.rows[t][ColPos(df, names[c])]]]]

\* df[names] raises KeyError when a listed column is missing.
HasColumns(df, names) == Range(names) \subseteq Range(df.columns)

\* ------------------------------------------------------------------ state
VARIABLES
    pc,                \* where the script is
    fill_method,       \* pct_change's default fill_method in the installed pandas
    tickers_input,     \* the text area: [empty, words]
    num_portfolios,    \* the simulation-count slider
    user_tickers,      \* line 41
    fetch_tickers,     \* line 44
    data,              \* line 50: the closing prices
    returns,           \* line 51
    raised,            \* the exception raised inside the try block, if any
    ui,                \* the elements rendered so far
    sim_returns,       \* line 68
    mean_returns,      \* line 74
    cov_matrix,        \* line 75
    num_assets,        \* line 76
    results,           \* line 79: <<returns, volatilities, Sharpe ratios>>
    weight_array,      \* line 80
    i,                 \* line 84: the next trial's (0-based) index
    max_sharpe_idx,    \* line 102
    sdp,               \* line 103
    rp,                \* line 103
    optimal_weights,   \* line 104
    beta_dict,         \* line 135
    portfolio_returns, \* line 151
    corr_matrix,       \* line 152
    stock_returns,     \* calculate_beta's first argument
    market_returns,    \* calculate_beta's second argument
    beta_out           \* calculate_beta's return value

inputs   == <<fill_method, tickers_input, num_portfolios>>
parsed   == <<user_tickers, fetch_tickers>>
simvars  == <<sim_returns, mean_returns, cov_matrix, num_assets, results, weight_array, i>>
bestvars == <<max_sharpe_idx, sdp, rp, optimal_weights>>
tabvars  == <<beta_dict, portfolio_returns, corr_matrix>>
betavars == <<stock_returns, market_returns, beta_out>>

vars == <<pc, inputs, parsed, data, returns, raised, ui, simvars, bestvars,
          tabvars, betavars>>

\* A float that was never assigned.
Unset  == [k |-> "unset", n |-> 0, d |-> 1]
SUnset == [k |-> "unset", s |-> 0, n |-> 0, d |-> 1]
NoInput == [empty |-> TRUE, words |-> <<>>]

\* Everything the script has not assigned yet.
Blank ==
    /\ user_tickers = <<>>
    /\ fetch_tickers = {}
    /\ data = EmptyDF
    /\ returns = EmptyDF
    /\ raised = "none"
    /\ ui = {}
    /\ sim_returns = EmptyDF
    /\ mean_returns = <<>>
    /\ cov_matrix = <<>>
    /\ num_assets = 0
    /\ results = <<>>
    /\ weight_array = <<>>
    /\ i = 0
    /\ max_sharpe_idx = 0
    /\ sdp = SUnset
    /\ rp = Unset
    /\ optimal_weights = <<>>
    /\ beta_dict = <<>>
    /\ portfolio_returns = EmptyDF
    /\ corr_matrix = EmptyDF

BlankBeta ==
    /\ stock_returns = <<>>
    /\ market_returns = <<>>
    /\ beta_out = Unset

\* ---------------------------------------------------------- calculate_beta
\* calculate_beta without the variance test of line 24.
calculate_beta_unguarded(sr, mr) ==
    IF Len(sr) < 2 THEN Int2Q(0) ELSE QDiv(Cov(sr, mr), Var(mr))

calculate_beta(sr, mr) ==
    IF Len(sr) < 2 THEN Int2Q(0)
    ELSE LET covariance == Cov(sr, mr)
             variance   == Var(mr)
         IN  IF variance = Int2Q(0) THEN Int2Q(0)
             ELSE QDiv(covariance, variance)

\* The returns tried where a return series is an input: a price that halves,
\* stays or doubles.
RetVals == {Q(-1, 2), Int2Q(0), Int2Q(1)}

\* A call of calculate_beta on two aligned series of 0..MaxObs observations.
InitBeta ==
    /\ pc = "beta_call"
    /\ fill_method = "none"
    /\ tickers_input = NoInput
    /\ num_portfolios = 0
    /\ Blank
    /\ \E n \in 0..MaxObs :
          /\ stock_returns \in [1..n -> RetVals]
          /\ market_returns \in [1..n -> RetVals]
    /\ beta_out = Unset

BetaCall ==
    /\ pc = "beta_call"
    /\ beta_out' = calculate_beta(stock_returns, market_returns)
    /\ pc' = "beta_done"
    /\ UNCHANGED <<inputs, parsed, data, returns, raised, ui, simvars, bestvars,
                   tabvars, stock_returns, market_returns>>

NextBeta == BetaCall
SpecBeta == InitBeta /\ [][NextBeta]_vars

\* ------------------------------------------------------- the return builder
\* Line 51.
BuildReturns ==
    /\ pc = "build"
    /\ returns' = DropNa(PctChange(data, fill_method))
    /\ pc' = "guard"
    /\ UNCHANGED <<inputs, parsed, data, raised, ui, simvars, bestvars, tabvars,
                   betavars>>

PriceCells == {NaN} \cup {Int2Q(p) : p \in 1..MaxPrice}

\* A price table of two symbols and 0..MaxRows timestamps, any cell missing.
InitRet ==
    /\ pc = "build"
    /\ fill_method \in {"pad", "none"}
    /\ tickers_input = [empty |-> FALSE, words |-> <<"a">>]
    /\ num_portfolios = 0
    /\ user_tickers = <<"A">>
    /\ fetch_tickers = {"A", "SPY"}
    /\ \E r \in 0..MaxRows :
          \E cells \in [1..r -> [1..2 -> PriceCells]] :
              data = [index |-> [t \in 1..r |-> t], columns |-> <<"A", "SPY">>,
                      rows |-> cells]
    /\ returns = EmptyDF
    /\ raised = "none"
    /\ ui = {}
    /\ sim_returns = EmptyDF
    /\ mean_returns = <<>>
    /\ cov_matrix = <<>>
    /\ num_assets = 0
    /\ results = <<>>
    /\ weight_array = <<>>
    /\ i = 0
    /\ max_sharpe_idx = 0
    /\ sdp = SUnset
    /\ rp = Unset
    /\ optimal_weights = <<>>
    /\ beta_dict = <<>>
    /\ portfolio_returns = EmptyDF
    /\ corr_matrix = EmptyDF
    /\ BlankBeta

NextRet == BuildReturns
SpecRet == InitRet /\ [][NextRet]_vars

\* --------------------------------------------------------- the simulation
\* Column c of a frame by position (a frame selected with a repeated symbol
\* has repeated columns).
ColumnAt(df, c) == [t \in 1..NRows(df) |-> df.rows[t][c]]

\* Line 74: sim_returns.mean() * 252.
MeanReturns(df) ==
    [c \in 1..Len(df.columns) |-> QMul(Mean(ColumnAt(df, c)), Int2Q(TradingDays))]

\* Line 75: sim_returns.cov() * 252.
CovMatrix(df) ==
    [a \in 1..Len(df.columns) |->
        [b \in 1..Len(df.columns) |->
            QMul(Cov(ColumnAt(df, a), ColumnAt(df, b)), Int2Q(TradingDays))]]

\* Line 79: np.zeros((3, n)).
Zeros(n) == << [j \in 1..n |-> Int2Q(0)], [j \in 1..n |-> SZero], [j \in 1..n |-> SZero] >>

\* Line 86: the draws, each in [0, 1).
Draws(n) == [1..n -> 0..MaxDraw]
RawWeights(draw) == [a \in DOMAIN draw |-> Q(draw[a], MaxDraw + 1)]

\* Line 87: weights /= np.sum(weights).
Normalize(raw) ==
    LET total == QSum(raw)
    IN  [a \in DOMAIN raw |-> QDiv(raw[a], total)]

\* Series.sum(): NaN entries are skipped (skipna=True).
NanSum(s) == QSum(SelectSeq(s, LAMBDA x : ~IsNaN(x)))

\* Line 91: np.sum of a pandas Series is Series.sum().
PortfolioReturn(mr, w) == NanSum([a \in DOMAIN w |-> QMul(mr[a], w[a])])

Dot(x, y) == QSum([a \in DOMAIN x |-> QMul(x[a], y[a])])

\* Line 94.
PortfolioStdDev(cm, w) == Sqrt(Dot(w, [a \in DOMAIN w |-> Dot(cm[a], w)]))

\* A store that always writes the first column.
StoreTrialFirst(res, col, ret, sd) ==
    [res EXCEPT ![1][1] = ret, ![2][1] = sd, ![3][1] = SDiv(ToSurd(ret), sd)]

\* Lines 97-99: column col (0-based) of results.
StoreTrial(res, col, ret, sd) ==
    [res EXCEPT ![1][col + 1] = ret,
                ![2][col + 1] = sd,
                ![3][col + 1] = SDiv(ToSurd(ret), sd)]

\* Line 152: Pearson correlation of every pair of columns.
Corr(df) ==
    [index   |-> df.columns,
     columns |-> df.columns,
     rows    |-> [a \in 1..Len(df.columns) |->
                    [b \in 1..Len(df.columns) |->
                        SDiv(ToSurd(Cov(ColumnAt(df, a), ColumnAt(df, b))),
                             Sqrt(QMul(Var(ColumnAt(df, a)), Var(ColumnAt(df, b)))))]]]

\* ---------------------------------------------------------------- the run
\* A price column that has the given returns: it starts at 2^Len and every
\* return of -1/2, 0 or 1 halves, keeps or doubles the price.
RECURSIVE Pow2(_)
Pow2(n) == IF n = 0 THEN 1 ELSE 2 * Pow2(n - 1)

RECURSIVE PricesOf(_, _)
PricesOf(first, rets) ==
    IF rets = <<>> THEN <<first>>
    ELSE <<first>> \o PricesOf(QMul(first, QAdd(Int2Q(1), Head(rets))), Tail(rets))

\* str.upper() on the words tried.
Words == {"a", "B", "spy"}
Upper(w) == IF w = "a" THEN "A" ELSE IF w = "spy" THEN "SPY" ELSE w

\* The symbols in the order the provider lists them.
Symbols == <<"A", "B", "SPY">>
SeqOf(S) == SelectSeq(Symbols, LAMBDA x : x \in S)

WordSeqs == UNION {[1..n -> Words] : n \in 0..MaxWords}
TickerInputs == {NoInput} \cup {[empty |-> FALSE, words |-> w] : w \in WordSeqs}

\* A handler that catches BaseException as well.
CaughtByBareExcept(e) == e \in {"Exception", "KeyError", "StopException"}

\* Line 157: what "except Exception" catches.  st.stop() raises streamlit's
\* StopException, which derives from BaseException only.
CaughtByExcept(e) == e \in {"Exception", "KeyError"}

\* The guard of line 70 with the threshold off by one.
UniverseEmpty(ut) == Len(ut) < 1

\* Line 70.
UniverseTooSmall(ut) == Len(ut) < 2

InitRun ==
    /\ pc = "start"
    /\ fill_method = "pad"
    /\ tickers_input \in TickerInputs
    /\ num_portfolios = RunSamples
    /\ Blank
    /\ BlankBeta

\* Line 40, the else of line 160.
StartNoInput ==
    /\ pc = "start"
    /\ tickers_input.empty
    /\ ui' = ui \cup {"info"}
    /\ pc' = "done"
    /\ UNCHANGED <<inputs, parsed, data, returns, raised, simvars, bestvars,
                   tabvars, betavars>>

\* Lines 40-46.
Start ==
    /\ pc = "start"
    /\ ~tickers_input.empty
    /\ user_tickers' = [x \in DOMAIN tickers_input.words |-> Upper(tickers_input.words[x])]
    /\ fetch_tickers' = Range(user_tickers') \cup {"SPY"}
    /\ pc' = "download"
    /\ UNCHANGED <<inputs, data, returns, raised, ui, simvars, bestvars, tabvars,
                   betavars>>

\* The return of a resolved symbol between rows t and t+1 of the downloaded
\* table: each symbol alternates between two of the price moves.
RunReturn(sym, t) ==
    IF sym = "A" THEN (IF t % 2 = 0 THEN Int2Q(0) ELSE Int2Q(1))
    ELSE IF sym = "B" THEN (IF t % 2 = 0 THEN Int2Q(1) ELSE Q(-1, 2))
    ELSE (IF t % 2 = 0 THEN Q(-1, 2) ELSE Int2Q(0))

\* Line 50: the provider answers with 0..RunRows rows for the symbols it
\* lists; a symbol it could not resolve is a column of missing prices.
Download ==
    /\ pc = "download"
    /\ \E cols \in SUBSET fetch_tickers, r \in 0..RunRows :
          \E failed \in SUBSET cols :
              LET names == SeqOf(cols)
                  price(c) == PricesOf(Int2Q(Pow2(RunRows)),
                                       [t \in 1..(RunRows - 1) |-> RunReturn(names[c], t)])
              IN  data' = [index   |-> [t \in 1..r |-> t],
                           columns |-> names,
                           rows    |-> [t \in 1..r |->
                                          [c \in 1..Len(names) |->
                                              IF names[c] \in failed THEN NaN
                                              ELSE price(c)[t]]]]
    /\ pc' = "build"
    /\ UNCHANGED <<inputs, parsed, returns, raised, ui, simvars, bestvars,
                   tabvars, betavars>>

\* Line 50: the download raises.
DownloadRaises ==
    /\ pc = "download"
    /\ raised' = "Exception"
    /\ pc' = "raise"
    /\ UNCHANGED <<inputs, parsed, data, returns, ui, simvars, bestvars, tabvars,
                   betavars>>

\* Lines 53-55: st.error, then st.stop() raises StopException.
GuardEmpty ==
    /\ pc = "guard"
    /\ IsEmpty(returns)
    /\ ui' = ui \cup {"error_insufficient"}
    /\ raised' = "StopException"
    /\ pc' = "raise"
    /\ UNCHANGED <<inputs, parsed, data, returns, simvars, bestvars, tabvars,
                   betavars>>

\* Lines 53, 58.
GuardPass ==
    /\ pc = "guard"
    /\ ~IsEmpty(returns)
    /\ ui' = ui \cup {"tabs"}
    /\ pc' = "tab1"
    /\ UNCHANGED <<inputs, parsed, data, returns, raised, simvars, bestvars,
                   tabvars, betavars>>

\* Lines 157-158: the handler shows the exception; the script ends normally.
Except ==
    /\ pc = "raise"
    /\ CaughtByExcept(raised)
    /\ ui' = ui \cup {"error_exception"}
    /\ pc' = "done"
    /\ UNCHANGED <<inputs, parsed, data, returns, raised, simvars, bestvars,
                   tabvars, betavars>>

\* An exception the handler does not catch leaves the script: the run stops.
Propagate ==
    /\ pc = "raise"
    /\ ~CaughtByExcept(raised)
    /\ pc' = "stopped"
    /\ UNCHANGED <<inputs, parsed, data, returns, raised, ui, simvars, bestvars,
                   tabvars, betavars>>

\* Line 68: returns[user_tickers] raises KeyError for a missing column.
Tab1KeyError ==
    /\ pc = "tab1"
    /\ ~HasColumns(returns, user_tickers)
    /\ raised' = "KeyError"
    /\ pc' = "raise"
    /\ UNCHANGED <<inputs, parsed, data, returns, ui, simvars, bestvars, tabvars,
                   betavars>>

\* Lines 68-71.
Tab1TooFew ==
    /\ pc = "tab1"
    /\ HasColumns(returns, user_tickers)
    /\ UniverseTooSmall(user_tickers)
    /\ sim_returns' = SelectColumns(returns, user_tickers)
    /\ ui' = ui \cup {"warning_two_assets"}
    /\ pc' = "tab2"
    /\ UNCHANGED <<inputs, parsed, data, returns, raised, mean_returns, cov_matrix,
                   num_assets, results, weight_array, i, bestvars, tabvars, betavars>>

\* Lines 68-80.
Tab1Prepare ==
    /\ pc = "tab1"
    /\ HasColumns(returns, user_tickers)
    /\ ~UniverseTooSmall(user_tickers)
    /\ sim_returns' = SelectColumns(returns, user_tickers)
    /\ mean_returns' = MeanReturns(sim_returns')
    /\ cov_matrix' = CovMatrix(sim_returns')
    /\ num_assets' = Len(user_tickers)
    /\ results' = Zeros(num_portfolios)
    /\ weight_array' = <<>>
    /\ i' = 0
    /\ pc' = "loop"
    /\ UNCHANGED <<inputs, parsed, data, returns, raised, ui, bestvars, tabvars,
                   betavars>>

\* Lines 84-99: one trial.
Trial ==
    /\ pc = "loop"
    /\ i < num_portfolios
    /\ \E draw \in Draws(num_assets) :
          LET weights == Normalize(RawWeights(draw))
              portfolio_return == PortfolioReturn(mean_returns, weights)
              portfolio_std_dev == PortfolioStdDev(cov_matrix, weights)
          IN  /\ weight_array' = Append(weight_array, weights)
              /\ results' = StoreTrial(results, i, portfolio_return, portfolio_std_dev)
    /\ i' = i + 1
    /\ UNCHANGED <<pc, inputs, parsed, data, returns, raised, ui, sim_returns,
                   mean_returns, cov_matrix, num_assets, bestvars, tabvars, betavars>>

\* Lines 102-126: the loop is over; pick and show the best trial.
Select ==
    /\ pc = "loop"
    /\ i >= num_portfolios
    /\ max_sharpe_idx' = ArgMax(results[3])
    /\ sdp' = results[2][max_sharpe_idx' + 1]
    /\ rp' = results[1][max_sharpe_idx' + 1]
    /\ optimal_weights' = weight_array[max_sharpe_idx' + 1]
    /\ ui' = ui \cup {"frontier_chart", "best_allocation", "weights_table"}
    /\ pc' = "tab2"
    /\ UNCHANGED <<inputs, parsed, data, returns, raised, simvars, tabvars, betavars>>

\* Lines 133-142.
Tab2Beta ==
    /\ pc = "tab2"
    /\ "SPY" \in Range(returns.columns)
    /\ beta_dict' = [t \in Range(user_tickers) \cap Range(returns.columns) |->
                        calculate_beta(Column(returns, t), Column(returns, "SPY"))]
    /\ ui' = ui \cup {"beta_chart"}
    /\ pc' = "tab3"
    /\ UNCHANGED <<inputs, parsed, data, returns, raised, simvars, bestvars,
                   portfolio_returns, corr_matrix, betavars>>

\* Lines 143-144.
Tab2NoSpy ==
    /\ pc = "tab2"
    /\ "SPY" \notin Range(returns.columns)
    /\ ui' = ui \cup {"warning_no_spy"}
    /\ pc' = "tab3"
    /\ UNCHANGED <<inputs, parsed, data, returns, raised, simvars, bestvars,
                   tabvars, betavars>>

\* Lines 149-155.
Tab3 ==
    /\ pc = "tab3"
    /\ portfolio_returns' = SelectColumns(returns, user_tickers)
    /\ corr_matrix' = Corr(portfolio_returns')
    /\ ui' = ui \cup {"heatmap"}
    /\ pc' = "done"
    /\ UNCHANGED <<inputs, parsed, data, returns, raised, simvars, bestvars,
                   beta_dict, betavars>>

Next ==
    \/ StartNoInput
    \/ Start
    \/ Download
    \/ DownloadRaises
    \/ BuildReturns
    \/ GuardEmpty
    \/ GuardPass
    \/ Except
    \/ Propagate
    \/ Tab1KeyError
    \/ Tab1TooFew
    \/ Tab1Prepare
    \/ Trial
    \/ Select
    \/ Tab2Beta
    \/ Tab2NoSpy
    \/ Tab3

Spec == InitRun /\ [][Next]_vars

\* ------------------------------------------------ the simulation on its own
\* The return tables tried have one row (the covariance is then NaN) or two.
SimRowCounts == {1, 2}

\* The script at the simulation tab: the user typed "a spy" and the provider
\* answered with two or three complete price rows.
InitSim ==
    /\ pc = "tab1"
    /\ fill_method = "pad"
    /\ tickers_input = [empty |-> FALSE, words |-> <<"a", "spy">>]
    /\ num_portfolios = MaxSamples
    /\ user_tickers = <<"A", "SPY">>
    /\ fetch_tickers = {"A", "SPY"}
    /\ \E T \in SimRowCounts :
          \E colA \in [1..T -> RetVals], colS \in [1..T -> RetVals] :
              LET pA == PricesOf(Int2Q(Pow2(T)), colA)
                  pS == PricesOf(Int2Q(Pow2(T)), colS)
              IN  /\ data = [index |-> [t \in 1..(T + 1) |-> t],
                             columns |-> <<"A", "SPY">>,
                             rows |-> [t \in 1..(T + 1) |-> <<pA[t], pS[t]>>]]
                  /\ returns = [index |-> [t \in 1..T |-> t + 1],
                                columns |-> <<"A", "SPY">>,
                                rows |-> [t \in 1..T |-> <<colA[t], colS[t]>>]]
    /\ raised = "none"
    /\ ui = {"tabs"}
    /\ sim_returns = EmptyDF
    /\ mean_returns = <<>>
    /\ cov_matrix = <<>>
    /\ num_assets = 0
    /\ results = <<>>
    /\ weight_array = <<>>
    /\ i = 0
    /\ max_sharpe_idx = 0
    /\ sdp = SUnset
    /\ rp = Unset
    /\ optimal_weights = <<>>
    /\ beta_dict = <<>>
    /\ portfolio_returns = EmptyDF
    /\ corr_matrix = EmptyDF
    /\ BlankBeta

NextSim == Tab1Prepare \/ Trial \/ Select
SpecSim == InitSim /\ [][NextSim]_vars

\* ------------------------------------------------------------------ claims
\* Timestamp t of the price table is a row of the return table.
Kept(t) == \E x \in 1..NRows(returns) : returns.index[x] = data.index[t]

\* Both the price at row t and the one before it exist, in every column.
BothPrices(t) ==
    /\ t > 1
    /\ \A c \in 1..Len(data.columns) :
          ~IsNaN(data.rows[t][c]) /\ ~IsNaN(data.rows[t - 1][c])

\* C8: a timestamp row is kept if and only if every column has both that
\* price and the previous one; the first row is never kept; every series has
\* the same length, which is at most the input length minus one.
C8_KeptIffBothPrices ==
    pc = "guard" =>
        /\ \A t \in 1..NRows(data) : Kept(t) <=> BothPrices(t)
        /\ (NRows(data) >= 1 => ~Kept(1))
        /\ \A x \in 1..NRows(returns) : Len(returns.rows[x]) = Len(returns.columns)
        /\ (NRows(data) >= 1 => NRows(returns) <= NRows(data) - 1)

\* ------------------------------------------------------------ calculate_beta
\* C7: calculate_beta returns 0.0 when there are fewer than 2 observations or
\* the market variance is exactly 0, and covariance / variance otherwise (its
\* product with the variance is the covariance); the result is always a
\* finite number, so no division by zero took place.
C7_BetaGuarded ==
    pc = "beta_done" =>
        /\ IsFin(beta_out)
        /\ (Len(stock_returns) < 2 => beta_out = Int2Q(0))
        /\ (Len(stock_returns) >= 2 /\ Var(market_returns) = Int2Q(0)
                => beta_out = Int2Q(0))
        /\ (Len(stock_returns) >= 2 /\ Var(market_returns) # Int2Q(0)
                => QMul(beta_out, Var(market_returns))
                        = Cov(stock_returns, market_returns))

\* A call on a constant market series and a stock series that moves.
C7_Witness ==
    /\ pc = "beta_done"
    /\ Len(stock_returns) >= 2
    /\ Var(market_returns) = Int2Q(0)
    /\ Var(stock_returns) # Int2Q(0)
    /\ beta_out = Int2Q(0)

\* ---------------------------------------------------------- the simulation
InSim == pc \in {"loop", "tab2"}
Sharpe(j) == results[3][j]
IsBest(j) == \A m \in 1..Len(results[3]) : SGe(Sharpe(j), Sharpe(m))

\* C1: after all trials the selected sample is the first trial whose Sharpe
\* ratio is >= the Sharpe ratio of every trial of the run.
C1_ArgMaxFirstSeen ==
    pc = "tab2" =>
        /\ IsBest(max_sharpe_idx + 1)
        /\ \A j \in 1..max_sharpe_idx : ~IsBest(j)

\* C2: every weight vector appended to weight_array has entries >= 0 that
\* sum to 1, whatever the draws, draws of 0 included.
C2_WeightsOnSimplex ==
    InSim =>
        \A j \in 1..Len(weight_array) :
            /\ \A a \in DOMAIN weight_array[j] :
                  IsFin(weight_array[j][a]) /\ weight_array[j][a].n >= 0
            /\ QSum(weight_array[j]) = Int2Q(1)

\* C3: a trial whose volatility is exactly 0 is scored -infinity (or is not
\* stored at all): no undefined Sharpe value is in results.
C3_ZeroVolatilityGuarded ==
    InSim =>
        \A j \in 1..i : results[2][j] = SZero => Sharpe(j) = SInf(-1)

\* C10, in every state of the loop: weight_array holds i vectors; column j of
\* results is the return, volatility and Sharpe ratio of weight_array[j]
\* under the mean_returns and cov_matrix computed before the loop; the loop
\* ends after num_portfolios trials; the reported weights, return and
\* volatility are those of trial max_sharpe_idx.
C10_State ==
    InSim =>
        /\ Len(weight_array) = i
        /\ i <= num_portfolios
        /\ mean_returns = MeanReturns(sim_returns)
        /\ cov_matrix = CovMatrix(sim_returns)
        /\ \A j \in 1..i :
              /\ results[1][j] = PortfolioReturn(mean_returns, weight_array[j])
              /\ results[2][j] = PortfolioStdDev(cov_matrix, weight_array[j])
              /\ results[3][j] = SDiv(ToSurd(results[1][j]), results[2][j])
        /\ pc = "tab2" =>
              /\ i = num_portfolios
              /\ max_sharpe_idx \in 0..(num_portfolios - 1)
              /\ optimal_weights = weight_array[max_sharpe_idx + 1]
              /\ rp = results[1][max_sharpe_idx + 1]
              /\ sdp = results[2][max_sharpe_idx + 1]

\* C10, in every step: the precomputed inputs, a stored vector and a stored
\* column stay as they are.
C10_Step ==
    InSim =>
        /\ UNCHANGED <<sim_returns, mean_returns, cov_matrix>>
        /\ \A j \in 1..i :
              /\ weight_array'[j] = weight_array[j]
              /\ \A r \in 1..3 : results'[r][j] = results[r][j]

\* C10: the loop keeps one column of results per stored weight vector,
\* never rewrites one, runs num_portfolios times and reports one trial.
C10_LoopBookkeeping == []C10_State /\ [][C10_Step]_vars

\* The second of two different trials was selected.
C10_Witness ==
    /\ pc = "tab2"
    /\ num_portfolios >= 2
    /\ max_sharpe_idx = 1
    /\ IsFin(Sharpe(1)) /\ IsFin(Sharpe(2))
    /\ weight_array[1] # weight_array[2]

\* ------------------------------------------------------------------ the run
\* The return table was built and tested by the guard of line 53.
PastGuard == pc \in {"raise", "stopped", "tab1", "loop", "tab2", "tab3", "done"}
                /\ raised \in {"none", "StopException", "KeyError"}
                /\ ~tickers_input.empty
\* The simulation tab was left without an exception.
PastTab1 == pc \in {"tab2", "tab3", "done"} /\ raised = "none" /\ "tabs" \in ui
AnalysisOutput == {"tabs", "warning_two_assets", "frontier_chart", "best_allocation",
                   "weights_table", "beta_chart", "warning_no_spy", "heatmap"}

\* C4: when the return table has zero rows the insufficient-data error is
\* shown and the run stops: no simulation, no beta analysis, no correlation
\* analysis, and the catch-all handler does not absorb the stop.
C4_EmptyStopsRun ==
    (PastGuard /\ NRows(returns) = 0) =>
        /\ "error_insufficient" \in ui
        /\ raised = "StopException"
        /\ pc \in {"raise", "stopped"}
        /\ "error_exception" \notin ui
        /\ ui \cap AnalysisOutput = {}
        /\ weight_array = <<>> /\ results = <<>> /\ sim_returns = EmptyDF
        /\ beta_dict = <<>>
        /\ portfolio_returns = EmptyDF /\ corr_matrix = EmptyDF

\* The provider answered with columns but no row survived, and the run stopped.
C4_Witness ==
    /\ pc = "stopped"
    /\ NRows(data) >= 2
    /\ Len(returns.columns) >= 2
    /\ NRows(returns) = 0
    /\ "error_insufficient" \in ui

Requested == {Upper(w) : w \in Range(tickers_input.words)}

\* C6: SPY is always fetched, and the simulation universe and the
\* correlation matrix have exactly the symbols the user typed: SPY is among
\* them only when the user typed it.
C6_BenchmarkStaysOut ==
    /\ (pc \notin {"start"} /\ ~tickers_input.empty) => "SPY" \in fetch_tickers
    /\ (pc = "loop" \/ PastTab1) =>
          /\ Range(sim_returns.columns) = Requested
          /\ ("SPY" \in Range(sim_returns.columns)
                => \E w \in Range(tickers_input.words) : Upper(w) = "SPY")
    /\ "heatmap" \in ui =>
          /\ Range(portfolio_returns.columns) = Requested
          /\ Range(corr_matrix.columns) = Requested
          /\ Range(corr_matrix.index) = Requested
          /\ ("SPY" \in Range(corr_matrix.columns)
                => \E w \in Range(tickers_input.words) : Upper(w) = "SPY")

\* SPY was fetched and used for the betas, and is in neither universe.
C6_Witness ==
    /\ pc = "done"
    /\ "SPY" \in Range(returns.columns)
    /\ "beta_chart" \in ui
    /\ "heatmap" \in ui
    /\ weight_array # <<>>
    /\ "SPY" \notin Range(sim_returns.columns)
    /\ "SPY" \notin Range(corr_matrix.columns)
====
